---- MODULE Spec2Model ----
(***************************************************************************)
(* Model of the GitHub action gcp-pubsub-create-topic (src/src/index.ts):  *)
(* run() reads the action inputs, createTopic() validates the topic name,  *)
(* queries existence, skips / fails / creates, applies metadata, and run() *)
(* reports the TopicResult through outputs or a failed status.             *)
(*                                                                         *)
(* Text is a sequence of string fragments (a character or a literal        *)
(* chunk); the empty string is <<>>.  An optional value is <<>> (undefined)*)
(* or <<v>>.                                                               *)
(***************************************************************************)
EXTENDS Integers, Sequences, FiniteSets, TLC

\* ------------------------------------------------------------------ bounds
\* Longest topic-name input that is enumerated.
MaxNameLen == 3
\* Number of invocations of the action made one after the other.
MaxRuns == 2

\* ------------------------------------------------------------ text helpers
Letters ==
  {"a","b","c","d","e","f","g","h","i","j","k","l","m",
   "n","o","p","q","r","s","t","u","v","w","x","y","z",
   "A","B","C","D","E","F","G","H","I","J","K","L","M",
   "N","O","P","Q","R","S","T","U","V","W","X","Y","Z"}

Digits == {"0","1","2","3","4","5","6","7","8","9"}

\* String.prototype.toLowerCase, per character.
LowerChar(c) ==
  CASE c = "T" -> "t"
    [] c = "R" -> "r"
    [] c = "U" -> "u"
    [] c = "E" -> "e"
    [] c = "F" -> "f"
    [] c = "A" -> "a"
    [] c = "L" -> "l"
    [] c = "S" -> "s"
    [] OTHER -> c

toLowerCase(s) == [i \in 1..Len(s) |-> LowerChar(s[i])]

\* JavaScript truthiness of an optional string: undefined and "" are falsy.
Truthy(opt) == opt # <<>> /\ opt[1] # <<>>

\* `x || undefined` on an input string (src/src/index.ts:14-16).
OrUndefined(s) == IF s = <<>> THEN <<>> ELSE <<s>>

Contains(text, frag) == \E i \in 1..Len(text) : text[i] = frag

ContainsSeq(text, sub) ==
  \E i \in 0..(Len(text) - Len(sub)) :
    \A j \in 1..Len(sub) : text[i + j] = sub[j]

\* ------------------------------------------------------------- validators
\* /^[a-zA-Z][a-zA-Z0-9._~+%-]{2,254}$/
MinTail == 2
MaxTail == 254
TailChars == Letters \cup Digits \cup {".", "_", "~", "+", "%", "-"}

topicPattern(name) ==
  /\ Len(name) >= 1
  /\ name[1] \in Letters
  /\ (Len(name) - 1) >= MinTail
  /\ (Len(name) - 1) <= MaxTail
  /\ \A i \in 2..Len(name) : name[i] \in TailChars

InvalidTopicNameMessage(name) ==
  <<"Invalid topic name: \"">> \o name \o
  <<"\". ", "Topic names must start with a letter and be 3-255 characters long, ",
    "containing only letters, numbers, and ._~+%-">>

\* validateTopicName: <<>> when the name passes, <<message>> when it throws.
validateTopicName(name) ==
  IF ~topicPattern(name) THEN <<InvalidTopicNameMessage(name)>> ELSE <<>>

\* JSON.parse on the label texts that are enumerated: the parsed value, or the
\* SyntaxError it throws.
JSONparse(text) ==
  CASE text = <<"{\"a\":\"1\",\"b\":\"2\"}">> ->
         [kind |-> "object",
          entries |-> << [key |-> "a", type |-> "string", value |-> "1"],
                         [key |-> "b", type |-> "string", value |-> "2"] >>,
          message |-> <<>>]
    [] text = <<"{\"a\":1}">> ->
         [kind |-> "object",
          entries |-> << [key |-> "a", type |-> "number", value |-> "1"] >>,
          message |-> <<>>]
    [] text = <<"null">> ->
         [kind |-> "null", entries |-> <<>>, message |-> <<>>]
    [] OTHER ->
         [kind |-> "invalid", entries |-> <<>>,
          message |-> <<"Unexpected token in JSON">>]

LabelTypeMessage(key, type) ==
  <<"Label \"", key, "\" must be a string, got ", type, ". ",
    "All labels must be strings.">>

\* The loop of parseLabels over Object.entries(parsed): the first entry whose
\* value is not a string throws; the others are copied into the result, a
\* Record kept as its <<key, value>> pairs in insertion order.
RECURSIVE LabelsLoop(_, _, _)
LabelsLoop(entries, i, acc) ==
  IF i > Len(entries) THEN [ok |-> TRUE, labels |-> acc, error |-> <<>>]
  ELSE IF entries[i].type # "string"
       THEN [ok |-> FALSE, labels |-> <<>>,
             error |-> LabelTypeMessage(entries[i].key, entries[i].type)]
       ELSE LabelsLoop(entries, i + 1,
                       Append(acc, <<entries[i].key, entries[i].value>>))

\* parseLabels: [ok, labels, error]; every throw inside is caught and rethrown
\* with the prefix "Failed to parse labels: ".
parseLabels(labelsJson) ==
  LET parsed == JSONparse(labelsJson)
      inner ==
        IF parsed.kind = "invalid"
           THEN [ok |-> FALSE, labels |-> <<>>, error |-> parsed.message]
        ELSE IF parsed.kind = "null"
           THEN [ok |-> FALSE, labels |-> <<>>,
                 error |-> <<"Cannot convert undefined or null to object">>]
        ELSE LabelsLoop(parsed.entries, 1, <<>>)
  IN IF inner.ok THEN inner
     ELSE [ok |-> FALSE, labels |-> <<>>,
           error |-> <<"Failed to parse labels: ">> \o inner.error]

DigitValue(c) ==
  CASE c = "0" -> 0 [] c = "1" -> 1 [] c = "2" -> 2 [] c = "3" -> 3
    [] c = "4" -> 4 [] c = "5" -> 5 [] c = "6" -> 6 [] c = "7" -> 7
    [] c = "8" -> 8 [] c = "9" -> 9

\* parseInt(digits, 10) on a non-empty run of decimal digits.
RECURSIVE parseInt(_)
parseInt(digits) ==
  IF Len(digits) = 0 THEN 0
  ELSE 10 * parseInt(SubSeq(digits, 1, Len(digits) - 1))
       + DigitValue(digits[Len(digits)])

Units == {"d", "h", "m", "s"}

\* duration.match(/^(\d+)([dhms])$/)
durationMatch(duration) ==
  /\ Len(duration) >= 2
  /\ duration[Len(duration)] \in Units
  /\ \A i \in 1..(Len(duration) - 1) : duration[i] \in Digits

InvalidDurationMessage(duration) ==
  <<"Invalid duration format: \"">> \o duration \o
  <<"\". ", "Use format like \"7d\" (days), \"600s\" (seconds), \"1h\" (hours), or \"30m\" (minutes)">>

SecondsPerDay == 86400
SecondsPerHour == 3600
SecondsPerMinute == 60

\* parseDuration: [ok, seconds, error]; nanos is never set.
parseDuration(duration) ==
  IF ~durationMatch(duration)
  THEN [ok |-> FALSE, seconds |-> 0, error |-> InvalidDurationMessage(duration)]
  ELSE LET value == parseInt(SubSeq(duration, 1, Len(duration) - 1))
           unit == duration[Len(duration)]
       IN [ok |-> TRUE,
           seconds |-> CASE unit = "d" -> value * SecondsPerDay
                         [] unit = "h" -> value * SecondsPerHour
                         [] unit = "m" -> value * SecondsPerMinute
                         [] unit = "s" -> value,
           error |-> <<>>]

\* ------------------------------------------------------------------ inputs
NameChars == {"a", "1", "/"}

RECURSIVE SeqsUpTo(_, _)
SeqsUpTo(chars, n) ==
  IF n = 0 THEN {<<>>}
  ELSE LET shorter == SeqsUpTo(chars, n - 1)
       IN shorter \cup {Append(s, c) : s \in shorter, c \in chars}

\* Values of the action's inputs; <<>> is an input that is not supplied.
ProjectIdInputs == {<<>>, <<"p">>}
TopicNameInputs == SeqsUpTo(NameChars, MaxNameLen)
SkipIfExistsInputs ==
  {<<>>, <<"t","r","u","e">>, <<"T","r","u","e">>, <<"f","a","l","s","e">>}
LabelsInputs ==
  {<<>>, <<"{\"a\":\"1\",\"b\":\"2\"}">>, <<"{\"a\":1}">>, <<"null">>, <<"not json">>}
KmsKeyNameInputs == {<<>>, <<"projects/p/locations/l/keyRings/r/cryptoKeys/k">>}
DurationInputs ==
  {<<>>, <<"7","d">>, <<"1","h">>, <<"3","0","m">>, <<"6","0","0","s">>,
   <<"5","x">>, <<"d","5">>}

\* Topics the project may hold before the first invocation.
InitialTopicNames == {<<"a","a","a">>}

\* ---------------------------------------------------------- Pub/Sub service
NoMetadata == [labels |-> <<>>, kmsKeyName |-> <<>>, messageRetentionDuration |-> <<>>]

\* Topic.name of pubsub.topic(name) and of the topic createTopic resolves to.
FullName(projectId, name) ==
  <<"projects/">> \o projectId \o <<"/topics/">> \o name

QueryError == <<"14 UNAVAILABLE: failed to connect">>
CreateErrors == {<<"7 PERMISSION_DENIED: User not authorized to perform this action.">>}
DuplicateError == <<"6 ALREADY_EXISTS: Resource already exists in the project">>
MetadataErrors == {<<"3 INVALID_ARGUMENT: invalid topic settings">>}

\* topic.exists(): it resolves with the truth, or rejects.
ExistsOutcomes(svc, name) ==
  { [ok |-> TRUE, exists |-> name \in DOMAIN svc, error |-> <<>>],
    [ok |-> FALSE, exists |-> FALSE, error |-> QueryError] }

\* pubsub.createTopic(name): a topic that exists is a duplicate; otherwise the
\* topic is created without settings, or the call rejects and nothing changes.
CreateOutcomes(svc, name) ==
  IF name \in DOMAIN svc
  THEN { [ok |-> FALSE, svc |-> svc, error |-> DuplicateError] }
  ELSE { [ok |-> TRUE,
          svc |-> [n \in (DOMAIN svc) \cup {name} |->
                     IF n = name THEN NoMetadata ELSE svc[n]],
          error |-> <<>>] }
       \cup { [ok |-> FALSE, svc |-> svc, error |-> e] : e \in CreateErrors }

\* The fields of an update that are given replace the topic's.
Merge(old, update) ==
  [labels |-> IF update.labels # <<>> THEN update.labels ELSE old.labels,
   kmsKeyName |-> IF update.kmsKeyName # <<>> THEN update.kmsKeyName
                  ELSE old.kmsKeyName,
   messageRetentionDuration |->
     IF update.messageRetentionDuration # <<>>
     THEN update.messageRetentionDuration ELSE old.messageRetentionDuration]

\* topic.setMetadata(metadata): applied, or rejected with nothing changed.
SetMetadataOutcomes(svc, name, update) ==
  { [ok |-> TRUE, svc |-> [svc EXCEPT ![name] = Merge(@, update)], error |-> <<>>] }
  \cup { [ok |-> FALSE, svc |-> svc, error |-> e] : e \in MetadataErrors }

\* One entry of the log of calls made to the service in an invocation.
Call(op, name, ok, payload, error) ==
  [op |-> op, name |-> name, ok |-> ok, payload |-> payload, error |-> error]

\* ------------------------------------------------------------------- state
VARIABLES
  inputs,       \* the action's inputs, as core.getInput returns them
  service,      \* the project's topics: bare name -> settings
  pc,           \* where the invocation stands
  config,       \* <<TopicConfig>> once run() has built it
  existsCheck,  \* <<{exists, topic}>> once checkTopicExists has returned
  topic,        \* <<handle>> of the created topic
  metadata,     \* the object handed to setMetadata
  result,       \* <<TopicResult>> once createTopic has returned
  outputs,      \* core.setOutput calls, in order
  failed,       \* core.setFailed calls, in order
  warnings,     \* core.warning calls, in order
  calls,        \* calls made to the service in this invocation, in order
  svcAtStart,   \* the service when this invocation started
  failedAt,     \* the step of createTopic that threw, "" if none
  runs,         \* invocations started so far
  prev          \* <<what the invocation before this one left>>

vars == <<inputs, service, pc, config, existsCheck, topic, metadata, result,
          outputs, failed, warnings, calls, svcAtStart, failedAt, runs, prev>>

locals == <<existsCheck, topic, metadata>>
sinks == <<outputs, failed, warnings>>

Init ==
  /\ inputs \in [projectId : ProjectIdInputs,
                 topicName : TopicNameInputs,
                 skipIfExists : SkipIfExistsInputs,
                 labels : LabelsInputs,
                 kmsKeyName : KmsKeyNameInputs,
                 messageRetentionDuration : DurationInputs]
  /\ service \in {[n \in S |-> NoMetadata] : S \in SUBSET InitialTopicNames}
  /\ pc = "start"
  /\ config = <<>>
  /\ existsCheck = <<>>
  /\ topic = <<>>
  /\ metadata = <<>>
  /\ result = <<>>
  /\ outputs = <<>>
  /\ failed = <<>>
  /\ warnings = <<>>
  /\ calls = <<>>
  /\ svcAtStart = service
  /\ failedAt = ""
  /\ runs = 1
  /\ prev = <<>>

\* ------------------------------------------------------------ TopicResult
SkippedResult(fullName) ==
  [success |-> TRUE, topicName |-> <<fullName>>, created |-> <<FALSE>>,
   error |-> <<>>]

CreatedResult(fullName) ==
  [success |-> TRUE, topicName |-> <<fullName>>, created |-> <<TRUE>>,
   error |-> <<>>]

\* The catch block of createTopic.
FailureResult(errorMessage) ==
  [success |-> FALSE, topicName |-> <<>>, created |-> <<>>,
   error |-> <<errorMessage>>]

\* The duplicate message without the topic's name.
AlreadyExistsMessage_noName(topicName) ==
  <<"Topic ", "already exists", ". ",
    "Set skip-if-exists=true to succeed when topic exists.">>

AlreadyExistsMessage(topicName) ==
  <<"Topic \"">> \o topicName \o
  <<"\"", " ", "already exists", ". ",
    "Set skip-if-exists=true to succeed when topic exists.">>

RequiredMessage(name) == <<"Input required and not supplied: ", name>>

\* ------------------------------------------------------------------- run()
\* run(), up to the call of createTopic: the inputs are read and the config
\* built; a required input that is missing throws into run's catch.
run_start ==
  /\ pc = "start"
  /\ IF inputs.projectId = <<>>
     THEN /\ failed' = Append(failed, RequiredMessage("project-id"))
          /\ pc' = "done"
          /\ UNCHANGED config
     ELSE IF inputs.topicName = <<>>
     THEN /\ failed' = Append(failed, RequiredMessage("topic-name"))
          /\ pc' = "done"
          /\ UNCHANGED config
     ELSE /\ config' =
               << [projectId |-> inputs.projectId,
                   topicName |-> inputs.topicName,
                   skipIfExists |->
                     toLowerCase(IF inputs.skipIfExists = <<>>
                                 THEN <<"f","a","l","s","e">>
                                 ELSE inputs.skipIfExists)
                     = <<"t","r","u","e">>,
                   labels |-> OrUndefined(inputs.labels),
                   kmsKeyName |-> OrUndefined(inputs.kmsKeyName),
                   messageRetentionDuration |->
                     OrUndefined(inputs.messageRetentionDuration)] >>
          /\ pc' = "createTopic"
          /\ UNCHANGED failed
  /\ UNCHANGED <<inputs, service, locals, result, outputs, warnings, calls,
                 svcAtStart, failedAt, runs, prev>>

\* ------------------------------------------------------------ createTopic
\* The head of createTopic without the call of validateTopicName.
createTopic_validate_skipped ==
  /\ pc = "createTopic"
  /\ pc' = "checkTopicExists"
  /\ UNCHANGED <<inputs, service, config, locals, result, failedAt, sinks,
                 calls, svcAtStart, runs, prev>>

\* validateTopicName(config.topicName) at the head of createTopic.
createTopic_validate ==
  /\ pc = "createTopic"
  /\ LET thrown == validateTopicName(config[1].topicName)
     IN IF thrown # <<>>
        THEN /\ result' = <<FailureResult(thrown[1])>>
             /\ failedAt' = "validate"
             /\ pc' = "returned"
        ELSE /\ pc' = "checkTopicExists"
             /\ UNCHANGED <<result, failedAt>>
  /\ UNCHANGED <<inputs, service, config, locals, sinks, calls, svcAtStart,
                 runs, prev>>

\* checkTopicExists without its catch: a rejected query throws into
\* createTopic's catch block.
checkTopicExists_propagates ==
  /\ pc = "checkTopicExists"
  /\ \E o \in ExistsOutcomes(service, config[1].topicName) :
       /\ calls' = Append(calls, Call("exists", config[1].topicName, o.ok, NoMetadata,
                                 o.error))
       /\ IF o.ok
          THEN /\ existsCheck' =
                    << [exists |-> o.exists,
                        topic |-> IF o.exists
                                  THEN << [name |-> FullName(config[1].projectId,
                                                             config[1].topicName)] >>
                                  ELSE <<>>] >>
               /\ pc' = "branch"
               /\ UNCHANGED <<result, failedAt>>
          ELSE /\ existsCheck' = << [exists |-> FALSE, topic |-> <<>>] >>
               /\ result' = <<FailureResult(o.error)>>
               /\ failedAt' = "checkTopicExists"
               /\ pc' = "returned"
  /\ UNCHANGED <<inputs, service, config, topic, metadata, sinks, svcAtStart,
                 runs, prev>>

\* checkTopicExists: a rejected query is logged as a warning and read as
\* "does not exist".
checkTopicExists ==
  /\ pc = "checkTopicExists"
  /\ \E o \in ExistsOutcomes(service, config[1].topicName) :
       /\ calls' = Append(calls, Call("exists", config[1].topicName, o.ok, NoMetadata,
                                 o.error))
       /\ IF o.ok
          THEN /\ existsCheck' =
                    << [exists |-> o.exists,
                        topic |-> IF o.exists
                                  THEN << [name |-> FullName(config[1].projectId,
                                                             config[1].topicName)] >>
                                  ELSE <<>>] >>
               /\ UNCHANGED warnings
          ELSE /\ existsCheck' = << [exists |-> FALSE, topic |-> <<>>] >>
               /\ warnings' = Append(warnings,
                                <<"Failed to check if topic exists: ">> \o o.error)
  /\ pc' = "branch"
  /\ UNCHANGED <<inputs, service, config, topic, metadata, result, outputs,
                 failed, svcAtStart, failedAt, runs, prev>>

\* The branch with the skip-if-exists flag ignored: an existing topic always
\* fails as a duplicate.
createTopic_branch_noSkip ==
  /\ pc = "branch"
  /\ IF existsCheck[1].exists /\ existsCheck[1].topic # <<>>
     THEN /\ result' = <<FailureResult(AlreadyExistsMessage(config[1].topicName))>>
          /\ failedAt' = "branch"
          /\ pc' = "returned"
     ELSE /\ pc' = "create"
          /\ UNCHANGED <<result, failedAt>>
  /\ UNCHANGED <<inputs, service, config, locals, sinks, calls, svcAtStart,
                 runs, prev>>

\* The branch with the skip path missing its return: it falls through to the
\* metadata step with the existing topic's handle.
createTopic_branch_fallThrough ==
  /\ pc = "branch"
  /\ IF existsCheck[1].exists /\ existsCheck[1].topic # <<>>
     THEN IF config[1].skipIfExists
          THEN /\ topic' = existsCheck[1].topic
               /\ pc' = "metadata"
               /\ UNCHANGED <<result, failedAt>>
          ELSE /\ result' = <<FailureResult(AlreadyExistsMessage(config[1].topicName))>>
               /\ failedAt' = "branch"
               /\ pc' = "returned"
               /\ UNCHANGED topic
     ELSE /\ pc' = "create"
          /\ UNCHANGED <<result, failedAt, topic>>
  /\ UNCHANGED <<inputs, service, config, existsCheck, metadata, sinks, calls,
                 svcAtStart, runs, prev>>

\* The branch on the existence check: skip, fail as a duplicate, or go on.
createTopic_branch ==
  /\ pc = "branch"
  /\ IF existsCheck[1].exists /\ existsCheck[1].topic # <<>>
     THEN IF config[1].skipIfExists
          THEN /\ result' = <<SkippedResult(existsCheck[1].topic[1].name)>>
               /\ pc' = "returned"
               /\ UNCHANGED failedAt
          ELSE /\ result' = <<FailureResult(AlreadyExistsMessage(config[1].topicName))>>
               /\ failedAt' = "branch"
               /\ pc' = "returned"
     ELSE /\ pc' = "create"
          /\ UNCHANGED <<result, failedAt>>
  /\ UNCHANGED <<inputs, service, config, locals, sinks, calls, svcAtStart,
                 runs, prev>>

\* The create call with a retry: a rejected call is made again.
createTopic_create_retry ==
  /\ pc = "create"
  /\ \E o \in CreateOutcomes(service, config[1].topicName) :
       /\ calls' = Append(calls, Call("create", config[1].topicName, o.ok, NoMetadata,
                                 o.error))
       /\ service' = o.svc
       /\ IF o.ok
          THEN /\ topic' = << [name |-> FullName(config[1].projectId,
                                                 config[1].topicName)] >>
               /\ pc' = "metadata"
               /\ UNCHANGED <<result, failedAt>>
          ELSE IF Len(calls) < 2
          THEN /\ pc' = "create"
               /\ UNCHANGED <<result, failedAt, topic>>
          ELSE /\ result' = <<FailureResult(o.error)>>
               /\ failedAt' = "create"
               /\ pc' = "returned"
               /\ UNCHANGED topic
  /\ UNCHANGED <<inputs, config, existsCheck, metadata, sinks, svcAtStart,
                 runs, prev>>

\* await pubsub.createTopic(config.topicName)
createTopic_create ==
  /\ pc = "create"
  /\ \E o \in CreateOutcomes(service, config[1].topicName) :
       /\ calls' = Append(calls, Call("create", config[1].topicName, o.ok, NoMetadata,
                                 o.error))
       /\ service' = o.svc
       /\ IF o.ok
          THEN /\ topic' = << [name |-> FullName(config[1].projectId,
                                                 config[1].topicName)] >>
               /\ pc' = "metadata"
               /\ UNCHANGED <<result, failedAt>>
          ELSE /\ result' = <<FailureResult(o.error)>>
               /\ failedAt' = "create"
               /\ pc' = "returned"
               /\ UNCHANGED topic
  /\ UNCHANGED <<inputs, config, existsCheck, metadata, sinks, svcAtStart,
                 runs, prev>>

\* The test for metadata fields without the KMS key.
hasMetadata_noKms(c) ==
  Truthy(c.labels) \/ Truthy(c.messageRetentionDuration)

hasMetadata(c) ==
  Truthy(c.labels) \/ Truthy(c.kmsKeyName) \/ Truthy(c.messageRetentionDuration)

\* The metadata object, built field by field; the first parser that throws
\* ends it: [ok, metadata, error].
buildMetadata(c) ==
  LET labels == IF Truthy(c.labels) THEN parseLabels(c.labels[1])
                ELSE [ok |-> TRUE, labels |-> <<>>, error |-> <<>>]
      duration == IF Truthy(c.messageRetentionDuration)
                  THEN parseDuration(c.messageRetentionDuration[1])
                  ELSE [ok |-> TRUE, seconds |-> 0, error |-> <<>>]
  IN IF ~labels.ok
        THEN [ok |-> FALSE, metadata |-> NoMetadata, error |-> labels.error]
     ELSE IF ~duration.ok
        THEN [ok |-> FALSE, metadata |-> NoMetadata, error |-> duration.error]
     ELSE [ok |-> TRUE,
           metadata |->
             [labels |-> IF Truthy(c.labels) THEN <<labels.labels>> ELSE <<>>,
              kmsKeyName |-> IF Truthy(c.kmsKeyName) THEN <<c.kmsKeyName[1]>>
                             ELSE <<>>,
              messageRetentionDuration |->
                IF Truthy(c.messageRetentionDuration)
                THEN << [seconds |-> duration.seconds] >> ELSE <<>>],
           error |-> <<>>]

\* After the create call: without metadata fields createTopic returns at once;
\* with them the metadata object is built, which may throw.
createTopic_metadata ==
  /\ pc = "metadata"
  /\ IF ~hasMetadata(config[1])
     THEN /\ result' = <<CreatedResult(topic[1].name)>>
          /\ pc' = "returned"
          /\ UNCHANGED <<metadata, failedAt>>
     ELSE LET built == buildMetadata(config[1])
          IN IF built.ok
             THEN /\ metadata' = <<built.metadata>>
                  /\ pc' = "setMetadata"
                  /\ UNCHANGED <<result, failedAt>>
             ELSE /\ result' = <<FailureResult(built.error)>>
                  /\ failedAt' = "buildMetadata"
                  /\ pc' = "returned"
                  /\ UNCHANGED metadata
  /\ UNCHANGED <<inputs, service, config, existsCheck, topic, sinks, calls,
                 svcAtStart, runs, prev>>

\* The metadata step with a clean-up: a rejected update deletes the topic
\* that was just created.
createTopic_setMetadata_rollback ==
  /\ pc = "setMetadata"
  /\ \E o \in SetMetadataOutcomes(service, config[1].topicName, metadata[1]) :
       /\ calls' = Append(calls, Call("setMetadata", config[1].topicName, o.ok,
                                      metadata[1], o.error))
       /\ IF o.ok
          THEN /\ service' = o.svc
               /\ result' = <<CreatedResult(topic[1].name)>>
               /\ UNCHANGED failedAt
          ELSE /\ service' = [n \in (DOMAIN service) \ {config[1].topicName} |->
                                service[n]]
               /\ result' = <<FailureResult(o.error)>>
               /\ failedAt' = "setMetadata"
  /\ pc' = "returned"
  /\ UNCHANGED <<inputs, config, locals, sinks, svcAtStart, runs, prev>>

\* await topic.setMetadata(metadata), then the successful return.
createTopic_setMetadata ==
  /\ pc = "setMetadata"
  /\ \E o \in SetMetadataOutcomes(service, config[1].topicName, metadata[1]) :
       /\ calls' = Append(calls, Call("setMetadata", config[1].topicName, o.ok,
                                      metadata[1], o.error))
       /\ service' = o.svc
       /\ IF o.ok
          THEN /\ result' = <<CreatedResult(topic[1].name)>>
               /\ UNCHANGED failedAt
          ELSE /\ result' = <<FailureResult(o.error)>>
               /\ failedAt' = "setMetadata"
  /\ pc' = "returned"
  /\ UNCHANGED <<inputs, config, locals, sinks, svcAtStart, runs, prev>>

\* ----------------------------------------------------------- run(), again
FailedMessage(r) ==
  IF Truthy(r.error) THEN r.error[1] ELSE <<"Failed to create topic">>

StringOfBool(b) == IF b THEN <<"true">> ELSE <<"false">>

\* The outputs with `created` tested for truth instead of against undefined:
\* created=false is never written.
OutputsOf_truthyCreated(r) ==
  (IF Truthy(r.topicName) THEN << <<"topic-name", r.topicName[1]>> >> ELSE <<>>)
  \o (IF r.created # <<>> /\ r.created[1]
      THEN << <<"created", StringOfBool(r.created[1])>> >>
      ELSE <<>>)

\* The outputs run sets for a successful result.
OutputsOf(r) ==
  (IF Truthy(r.topicName) THEN << <<"topic-name", r.topicName[1]>> >> ELSE <<>>)
  \o (IF r.created # <<>> THEN << <<"created", StringOfBool(r.created[1])>> >>
      ELSE <<>>)

\* run(), after createTopic has returned.
run_report ==
  /\ pc = "returned"
  /\ IF ~result[1].success
     THEN /\ failed' = Append(failed, FailedMessage(result[1]))
          /\ UNCHANGED outputs
     ELSE /\ outputs' = outputs \o OutputsOf(result[1])
          /\ UNCHANGED failed
  /\ pc' = "done"
  /\ UNCHANGED <<inputs, service, config, locals, result, warnings, calls,
                 svcAtStart, failedAt, runs, prev>>

\* The action is invoked again with the same inputs, in a new process.
rerun ==
  /\ pc = "done"
  /\ runs < MaxRuns
  /\ prev' = << [result |-> result, calls |-> calls, existsCheck |-> existsCheck,
                  svcAtStart |-> svcAtStart] >>
  /\ runs' = runs + 1
  /\ svcAtStart' = service
  /\ pc' = "start"
  /\ config' = <<>>
  /\ existsCheck' = <<>>
  /\ topic' = <<>>
  /\ metadata' = <<>>
  /\ result' = <<>>
  /\ outputs' = <<>>
  /\ failed' = <<>>
  /\ warnings' = <<>>
  /\ calls' = <<>>
  /\ failedAt' = ""
  /\ UNCHANGED <<inputs, service>>

Next ==
  \/ run_start
  \/ createTopic_validate
  \/ checkTopicExists
  \/ createTopic_branch
  \/ createTopic_create
  \/ createTopic_metadata
  \/ createTopic_setMetadata
  \/ run_report
  \/ rerun

Spec == Init /\ [][Next]_vars

\* The event loop resumes run() and createTopic() whenever the call they await
\* has settled.
FairSpec == Spec /\ WF_vars(Next)

\* ------------------------------------------------------------ properties
Returned == result # <<>>

\* The existence query answered that the topic exists.
ReportedExists == existsCheck # <<>> /\ existsCheck[1].exists

\* The existence query was made and rejected.
QueryFailed == Len(calls) >= 1 /\ calls[1].op = "exists" /\ ~calls[1].ok

Count(op) == Cardinality({i \in 1..Len(calls) : calls[i].op = op})

CreateSucceeded == \E i \in 1..Len(calls) : calls[i].op = "create" /\ calls[i].ok

ExistedAtStart == config # <<>> /\ config[1].topicName \in DOMAIN svcAtStart

ConfigFullName == FullName(config[1].projectId, config[1].topicName)

\* C1: when the existence query reports the topic as existing and skipIfExists
\* is true, createTopic returns success=true, created=false and the existing
\* topic's fully-qualified name, makes no create and no metadata-update call,
\* and leaves the service as it was, whatever labels, kmsKeyName and
\* messageRetentionDuration the config holds.
C1_SkipLeavesTopicAlone ==
  (Returned /\ ReportedExists /\ config[1].skipIfExists) =>
    /\ result[1] = [success |-> TRUE, topicName |-> <<ConfigFullName>>,
                    created |-> <<FALSE>>, error |-> <<>>]
    /\ Count("create") = 0
    /\ Count("setMetadata") = 0
    /\ service = svcAtStart

\* The skip path is taken by a config that asks for labels, a KMS key and a
\* retention at once.
C1_Witness ==
  /\ Returned /\ ReportedExists /\ config[1].skipIfExists
  /\ Truthy(config[1].labels)
  /\ Truthy(config[1].kmsKeyName)
  /\ Truthy(config[1].messageRetentionDuration)

C3_DuplicateFails ==
  (Returned /\ ReportedExists /\ ~config[1].skipIfExists) =>
    /\ ~result[1].success
    /\ result[1].error # <<>>
    /\ Contains(result[1].error[1], "already exists")
    /\ ContainsSeq(result[1].error[1], config[1].topicName)
    /\ result[1].topicName = <<>>
    /\ result[1].created = <<>>
    /\ Count("create") = 0
    /\ Count("setMetadata") = 0
    /\ service = svcAtStart

C3_Witness ==
  /\ Returned /\ ReportedExists /\ ~config[1].skipIfExists
  /\ failedAt = "branch"
  /\ Len(config[1].topicName) >= 3

\* C4: a topic name that fails validateTopicName makes createTopic return
\* success=false with the validator's message as error, with no existence
\* query, no create call and no metadata update made, and the service as it
\* was.
C4_InvalidNameShortCircuits ==
  (Returned /\ ~topicPattern(config[1].topicName)) =>
    /\ result[1] = [success |-> FALSE, topicName |-> <<>>, created |-> <<>>,
                    error |-> <<InvalidTopicNameMessage(config[1].topicName)>>]
    /\ calls = <<>>
    /\ service = svcAtStart

\* A name with a character outside the pattern, of a length the pattern
\* allows, is rejected.
C4_Witness ==
  /\ Returned
  /\ config[1].topicName = <<"a", "/", "a">>
  /\ failedAt = "validate"

\* What the steps after the existence query decide: the create call's error,
\* the metadata object's, the metadata update's, or the created result.
AfterQueryResult ==
  LET create == calls[2]
      built == buildMetadata(config[1])
  IN IF ~create.ok THEN FailureResult(create.error)
     ELSE IF ~hasMetadata(config[1])
          THEN [success |-> TRUE, topicName |-> <<ConfigFullName>>,
                created |-> <<TRUE>>, error |-> <<>>]
     ELSE IF ~built.ok THEN FailureResult(built.error)
     ELSE IF ~calls[3].ok THEN FailureResult(calls[3].error)
     ELSE [success |-> TRUE, topicName |-> <<ConfigFullName>>,
           created |-> <<TRUE>>, error |-> <<>>]

\* C5: a rejected existence query is never the result's error: checkTopicExists
\* returns exists=false, the create call is made next as for a topic that does
\* not exist, and the TopicResult is the one the create and metadata steps
\* decide.
C5_QueryFailureSwallowed ==
  /\ (QueryFailed /\ existsCheck # <<>>) =>
        /\ existsCheck[1] = [exists |-> FALSE, topic |-> <<>>]
        /\ pc # "branch" => (Len(calls) >= 2 \/ pc = "create")
  /\ (QueryFailed /\ Returned) =>
        /\ Len(calls) >= 2
        /\ calls[2].op = "create"
        /\ Count("create") = 1
        /\ result[1] = AfterQueryResult
        /\ result[1].error # <<QueryError>>
        /\ failedAt \in {"", "create", "buildMetadata", "setMetadata"}

\* After a rejected query the topic is created and the run succeeds.
C5_Witness ==
  /\ QueryFailed /\ Returned
  /\ result[1].success /\ result[1].created = <<TRUE>>
  /\ Len(warnings) = 1

\* The service at the start of the invocation plus the created topic, without
\* settings.
StartPlusTopic ==
  [n \in (DOMAIN svcAtStart) \cup {config[1].topicName} |->
     IF n = config[1].topicName THEN NoMetadata ELSE svcAtStart[n]]

\* C6: a success=false result after a successful create call comes from the
\* metadata step (building the object, or the update call); the created topic
\* is still there, nothing is rolled back, and the result carries the error
\* without topicName or created.  A success=false result whose failure came
\* before or in the create call leaves the service as the invocation found it.
C6_FailureAfterCreateKeepsTopic ==
  (Returned /\ ~result[1].success) =>
    /\ result[1].error # <<>>
    /\ result[1].topicName = <<>>
    /\ result[1].created = <<>>
    /\ IF CreateSucceeded
       THEN /\ failedAt \in {"buildMetadata", "setMetadata"}
            /\ config[1].topicName \in DOMAIN service
            /\ config[1].topicName \notin DOMAIN svcAtStart
            /\ service = StartPlusTopic
       ELSE /\ failedAt \in {"validate", "branch", "create"}
            /\ service = svcAtStart

\* The metadata update is rejected after the topic was created.
C6_Witness ==
  /\ Returned /\ ~result[1].success
  /\ CreateSucceeded
  /\ failedAt = "setMetadata"

LabelsMalformed ==
  config[1].labels # <<>> /\ ~parseLabels(config[1].labels[1]).ok

DurationMalformed ==
  /\ config[1].messageRetentionDuration # <<>>
  /\ ~parseDuration(config[1].messageRetentionDuration[1]).ok

\* The values written to an output.
Output(key) == {outputs[i][2] : i \in {j \in 1..Len(outputs) : outputs[j][1] = key}}

Written(key) == Cardinality({j \in 1..Len(outputs) : outputs[j][1] = key})

BothOutputsSet == Written("topic-name") = 1 /\ Written("created") = 1

TookSkipPath == Returned /\ ReportedExists /\ config[1].skipIfExists

\* C7 as claimed, on the runs whose labels and duration are well-formed: both
\* outputs are set exactly when createTopic returned success=true; on
\* success=false the failed status is reported once with the result's error
\* and no output is set; `created` is "true" exactly when the run made a
\* successful create call and "false" exactly when it took the skip path.
C7_OutputsFollowCreateCall ==
  /\ Len(failed) <= 1
  /\ pc # "done" => (outputs = <<>> /\ failed = <<>>)
  /\ (pc = "done" /\ config # <<>> /\ ~LabelsMalformed /\ ~DurationMalformed) =>
       /\ BothOutputsSet <=> (Returned /\ result[1].success)
       /\ ~BothOutputsSet => outputs = <<>>
       /\ (Returned /\ ~result[1].success) =>
            (failed = <<result[1].error[1]>> /\ outputs = <<>>)
       /\ (Output("created") = {<<"true">>}) <=> CreateSucceeded
       /\ (Output("created") = {<<"false">>}) <=> TookSkipPath

\* C7, amended: as claimed, except that `created` is "true" exactly when the
\* run made a successful create call and createTopic returned success=true; a
\* run whose metadata step fails after the create call sets no output.
C7_OutputsAllOrNothing ==
  /\ Len(failed) <= 1
  /\ pc # "done" => (outputs = <<>> /\ failed = <<>>)
  /\ pc = "done" =>
       /\ BothOutputsSet <=> (Returned /\ result[1].success)
       /\ ~BothOutputsSet => outputs = <<>>
       /\ (Returned /\ result[1].success) =>
            (failed = <<>> /\ Output("topic-name") = {ConfigFullName})
       /\ (Returned /\ ~result[1].success) =>
            (failed = <<result[1].error[1]>> /\ outputs = <<>>)
       /\ (Output("created") = {<<"true">>})
            <=> (CreateSucceeded /\ Returned /\ result[1].success)
       /\ (Output("created") = {<<"false">>}) <=> TookSkipPath

\* A run that created the topic, failed in the metadata step and reported it.
C7_Witness ==
  /\ pc = "done" /\ Returned /\ ~result[1].success
  /\ CreateSucceeded
  /\ Len(failed) = 1 /\ outputs = <<>>

NotExistedAtStart == config # <<>> /\ config[1].topicName \notin DOMAIN svcAtStart

AnyFieldPresent ==
  \/ config[1].labels # <<>>
  \/ config[1].kmsKeyName # <<>>
  \/ config[1].messageRetentionDuration # <<>>

PresentFieldsValid ==
  /\ config[1].labels # <<>> => parseLabels(config[1].labels[1]).ok
  /\ config[1].messageRetentionDuration # <<>> =>
       parseDuration(config[1].messageRetentionDuration[1]).ok

\* The payload that holds exactly the fields the config gives.
ExpectedPayload ==
  [labels |-> IF config[1].labels # <<>>
              THEN <<parseLabels(config[1].labels[1]).labels>> ELSE <<>>,
   kmsKeyName |-> config[1].kmsKeyName,
   messageRetentionDuration |->
     IF config[1].messageRetentionDuration # <<>>
     THEN << [seconds |->
                parseDuration(config[1].messageRetentionDuration[1]).seconds] >>
     ELSE <<>>]

\* The create call is followed by exactly one metadata update, with the
\* expected payload, and by nothing else.
OneUpdateAfterCreate ==
  /\ Count("setMetadata") = 1
  /\ Count("create") = 1
  /\ calls[Len(calls)].op = "setMetadata"
  /\ calls[Len(calls) - 1].op = "create"
  /\ calls[Len(calls)].payload = ExpectedPayload
  /\ calls[Len(calls)].name = config[1].topicName

CreatedResultOfConfig ==
  [success |-> TRUE, topicName |-> <<ConfigFullName>>, created |-> <<TRUE>>,
   error |-> <<>>]

\* C8 as claimed: the topic does not exist and creation succeeds; without
\* metadata fields no update is made; with fields that are present and valid
\* exactly one update follows the create call, carrying exactly those fields;
\* in both cases the result is success=true, created=true with the created
\* topic's fully-qualified name.
C8_CreateAlwaysSucceeds ==
  (Returned /\ NotExistedAtStart /\ CreateSucceeded) =>
    /\ ~AnyFieldPresent =>
         (Count("setMetadata") = 0 /\ result[1] = CreatedResultOfConfig)
    /\ (AnyFieldPresent /\ PresentFieldsValid) =>
         (OneUpdateAfterCreate /\ result[1] = CreatedResultOfConfig)

\* C8, amended: as claimed, except that with metadata fields the result is
\* success=true, created=true only when the metadata update is accepted; when
\* the service rejects it the result is success=false with that call's error.
C8_CreateThenOneUpdate ==
  (Returned /\ NotExistedAtStart /\ CreateSucceeded) =>
    /\ ~AnyFieldPresent =>
         (Count("setMetadata") = 0 /\ result[1] = CreatedResultOfConfig)
    /\ (AnyFieldPresent /\ PresentFieldsValid) =>
         /\ OneUpdateAfterCreate
         /\ calls[Len(calls)].ok =>
              /\ result[1] = CreatedResultOfConfig
              /\ service[config[1].topicName] = ExpectedPayload
         /\ ~calls[Len(calls)].ok =>
              result[1] = [success |-> FALSE, topicName |-> <<>>,
                           created |-> <<>>,
                           error |-> <<calls[Len(calls)].error>>]

\* Labels {"a":"1","b":"2"} and a retention of 7d are applied in one update.
C8_Witness ==
  /\ Returned /\ NotExistedAtStart /\ CreateSucceeded
  /\ result[1].success
  /\ Count("setMetadata") = 1
  /\ calls[Len(calls)].payload.labels = << << <<"a", "1">>, <<"b", "2">> >> >>
  /\ calls[Len(calls)].payload.messageRetentionDuration = << [seconds |-> 604800] >>

\* C9: the validators of the topic name, the labels JSON and the duration
\* string run before the existence query, so a run whose labels or duration
\* is malformed never gets a topic created.
C9_ValidationBeforeCalls ==
  (config # <<>> /\ (LabelsMalformed \/ DurationMalformed)) =>
    ~CreateSucceeded

\* The calls so far are a prefix of: existence query, create, metadata update,
\* each at most once, nothing after a rejected create or update.
SinglePass ==
  /\ Len(calls) <= 3
  /\ Len(calls) >= 1 => calls[1].op = "exists"
  /\ Len(calls) >= 2 => calls[2].op = "create"
  /\ Len(calls) >= 3 => (calls[3].op = "setMetadata" /\ calls[2].ok)
  /\ \A i \in 1..Len(calls) :
       (calls[i].op # "exists" /\ ~calls[i].ok) => i = Len(calls)
  /\ pc \in {"returned", "done"} /\ config # <<>> => Returned

\* C10: createTopic is a single pass: each of the three service operations is
\* called at most once, create only after the existence query, the metadata
\* update only after a successful create, nothing after a rejected create or
\* update; and with every call returning, a run that enters createTopic
\* always comes to return a TopicResult.
C10_SinglePassAndReturns ==
  /\ []SinglePass
  /\ (pc = "createTopic") ~> (pc = "returned" /\ Returned)

\* A run that made all three calls, the last one rejected, and returned.
C10_Witness ==
  /\ pc = "returned" /\ Returned
  /\ Len(calls) = 3
  /\ ~calls[3].ok

====
